---- MODULE Spec2Model ----
(***************************************************************************)
(* The ingest worker of src/src/app/api/storage/signed-url/route.js: the   *)
(* POST webhook handler, processFile, parseCsv, parseXlsx, processBatch    *)
(* and updateJobProgress, run by several overlapping invocations against   *)
(* one processing_queue table, one blob store and one rows table.          *)
(*                                                                         *)
(* Every awaited collaborator call is one atomic step (the call and its    *)
(* answer); the synchronous code between two awaits belongs to the step    *)
(* that precedes it.  Every collaborator call may answer with an error.    *)
(***************************************************************************)
EXTENDS Integers, Sequences, FiniteSets, Bags, TLC

\* BATCH_SIZE is 100 in the source (route.js:88).  The model is parametric in
\* it and is explored with small values, so that full and partial batches
\* both occur within MaxRows rows.
BATCH_SIZE == 2
\* Largest number of data rows of a modelled file.
MaxRows == 3
\* String(errorMessage).substring(0, 500)
MaxErrLen == 500
\* cleanedPeriod.length >= 12: the digits of a range of periods
RangeMinDigits == 12
\* Largest number of pieces of a modelled 'Income Period' text.
MaxTokens == 3
\* Largest number of times one batch is passed through processBatch.
MaxPasses == 2
\* Number of columns of a modelled worksheet.
MaxCols == 2

Handlers == {"h1", "h2"}
JobIds == {"j1", "j2"}

VARIABLES
    queue,      \* processing_queue: job id -> record (the domain is the existing jobs)
    blobs,      \* blob store: job id -> the file stored at the job's storage_path
    rowStore,   \* rows table: a bag of rows (id bigserial: every upsert inserts)
    hs,         \* handler invocation -> its local state
    log         \* handler invocation -> what it has done so far (history)

vars == <<queue, blobs, rowStore, hs, log>>

----------------------------------------------------------------------------
\* Optional values: undefined is <<>>, a value v is <<v>>.
None == <<>>
Some(v) == <<v>>
IsSome(o) == Len(o) = 1
Val(o) == o[1]

Min(a, b) == IF a < b THEN a ELSE b

----------------------------------------------------------------------------
\* Files.  rows: the data rows the parser yields; est: the CSV newline count
\* (route.js:160,196) or the worksheet's rowCount (route.js:168); sheet:
\* whether workbook.worksheets[0] exists.  A CSV text is a header line and
\* its data lines, each ended by a newline.
CsvFiles ==
    { [ext |-> "csv", rows |-> n, est |-> n + 1, sheet |-> FALSE] : n \in 0..MaxRows }
XlsxFiles ==
    { [ext |-> "xlsx", rows |-> IF rc = 0 THEN 0 ELSE rc - 1, est |-> rc, sheet |-> TRUE] :
        rc \in 0..(MaxRows + 1) }
    \cup { [ext |-> "xlsx", rows |-> 0, est |-> 0, sheet |-> FALSE] }
OtherFiles ==
    { [ext |-> "pdf", rows |-> 0, est |-> 0, sheet |-> FALSE],
      [ext |-> "txt", rows |-> 0, est |-> 0, sheet |-> FALSE] }
Files == CsvFiles \cup XlsxFiles \cup OtherFiles

\* Error messages: what was thrown and how long the message is.  The text of
\* a collaborator's error is not under the program's control: short or long.
MsgLens == {40, 501}
NoError == [kind |-> "none", len |-> 0]

\* A freshly inserted processing_queue row.
NewJob == [status |-> "pending", attempts |-> 0, processed_row_count |-> 0,
           total_row_count |-> 0, error_message |-> NoError]

\* embed({model, value: text}): the vector of a content string.
Embedding(content) == <<"vec", content>>
NoEmbedding == <<"vec", 0>>

\* The content string of data row i of the job's file (route.js:314-317).
Content(i) == i

----------------------------------------------------------------------------
\* Local state of one invocation of POST.
InitHandler ==
    [ pc |-> "idle",            \* position of the handler's main line
      task |-> "none",          \* position of the parser callbacks / sheet walk
      ret |-> "none",           \* who called processBatch: step, complete, xlsx
      jobId |-> "none",         \* let jobId = null
      file |-> [ext |-> "none", rows |-> 0, est |-> 0, sheet |-> FALSE],
      rowsBatch |-> <<>>,
      currentProcessed |-> 0,
      processedRowCount |-> 0,
      totalRowCount |-> 0,
      nextRow |-> 1,            \* next data row the parser / loop will produce
      paused |-> FALSE,         \* parser.pause() / parser.resume()
      aborted |-> FALSE,        \* parser.abort()
      promise |-> "none",       \* parseCsv's promise: pending, resolved, rejected
      inflight |-> 0,           \* processBatch calls started and not yet settled
      embResults |-> <<>>,      \* per request of the batch: None or Some(vector)
      rowsToUpsert |-> <<>>,
      finalJobData |-> None,
      error |-> NoError,
      response |-> 0 ]

InitLog ==
    [ passed |-> FALSE,         \* got past the pending guard
      incs |-> 0,               \* successful increment_job_attempts calls
      downloads |-> 0,          \* storage download calls
      embeds |-> 0,             \* embed requests issued
      upserts |-> 0,            \* upsert calls issued
      writes |-> 0,             \* processing_queue update calls issued
      lateWrites |-> 0,         \* ... of them, issued after the response
      wroteFailed |-> FALSE,    \* its update to status failed reached the table
      calledOn |-> "none",      \* the job's status when the webhook arrived
      incCalls |-> 0,           \* increment_job_attempts calls issued
      afterThrow |-> 0,         \* processBatch calls started after one had thrown
      batches |-> <<>>,         \* first row of every processBatch call, in call order
      thrown |-> 0,             \* first row of the processBatch call that threw first
      lateRows |-> 0,           \* rows delivered during a processBatch call
      wroteCompleted |-> FALSE ] \* its update to status completed reached the table

TypeOK ==
    /\ DOMAIN queue \subseteq JobIds
    /\ \A j \in DOMAIN queue :
          /\ queue[j].status \in {"pending", "processing", "completed", "failed"}
          /\ queue[j].attempts \in Nat
          /\ queue[j].processed_row_count \in Int
          /\ queue[j].total_row_count \in Int
    /\ \A j \in DOMAIN blobs : blobs[j] \in Files
    /\ DOMAIN hs = Handlers
    /\ DOMAIN log = Handlers

----------------------------------------------------------------------------
\* updateJobProgress: the row the update statement leaves for job jobId.
\* progress is [processed, total], each None (undefined) or Some(number).
Truncate(err) == [err EXCEPT !.len = Min(err.len, MaxErrLen)]

\* A variant that also counts an attempt whenever it writes status processing.
updateDataCountsAttempt(rec, status, progress, errorMessage) ==
    [rec EXCEPT
        !.status = status,
        !.attempts = IF status = "processing" THEN @ + 1 ELSE @,
        !.processed_row_count =
            IF IsSome(progress.processed) THEN Val(progress.processed) ELSE @,
        !.total_row_count =
            IF IsSome(progress.total) THEN Val(progress.total) ELSE @,
        !.error_message =
            IF errorMessage # NoError THEN Truncate(errorMessage) ELSE @]

updateData(rec, status, progress, errorMessage) ==
    [rec EXCEPT
        !.status = status,
        !.processed_row_count =
            IF IsSome(progress.processed) THEN Val(progress.processed) ELSE @,
        !.total_row_count =
            IF IsSome(progress.total) THEN Val(progress.total) ELSE @,
        !.error_message =
            IF errorMessage # NoError THEN Truncate(errorMessage) ELSE @]

\* A variant that inserts the row when none matches.
updateJobProgressOrInsert(q, jobId, status, progress, errorMessage) ==
    [j \in DOMAIN q \cup {jobId} |->
        IF j = jobId
        THEN updateData(IF j \in DOMAIN q THEN q[j] ELSE NewJob,
                        status, progress, errorMessage)
        ELSE q[j]]

\* A variant whose update has no filter on the id.
updateJobProgressEveryRow(q, jobId, status, progress, errorMessage) ==
    [j \in DOMAIN q |-> updateData(q[j], status, progress, errorMessage)]

\* .update(updateData).eq('id', jobId): no row matches a missing job.
updateJobProgress(q, jobId, status, progress, errorMessage) ==
    IF jobId \in DOMAIN q
    THEN [q EXCEPT ![jobId] = updateData(@, status, progress, errorMessage)]
    ELSE q

NoProgress == [processed |-> None, total |-> None]
Processed(n) == [processed |-> Some(n), total |-> None]
Total(n) == [processed |-> None, total |-> Some(n)]
Both(p, t) == [processed |-> Some(p), total |-> Some(t)]

\* One awaited updateJobProgress call by handler h: the update reaches the
\* table, or the database answers with an error, which is logged and returned
\* in { error } (route.js:121-124); no caller looks at it.
Returned(h) == hs[h].response # 0

LogWrite(lg, h, status, ok) ==
    [lg EXCEPT ![h].writes = @ + 1,
               ![h].lateWrites = IF Returned(h) THEN @ + 1 ELSE @,
               ![h].wroteFailed = @ \/ (ok /\ status = "failed"),
               ![h].wroteCompleted = @ \/ (ok /\ status = "completed")]

WriteQueue(h, status, progress, errorMessage) ==
    \E ok \in BOOLEAN :
       /\ queue' = IF ok
                   THEN updateJobProgress(queue, hs[h].jobId, status, progress, errorMessage)
                   ELSE queue
       /\ log' = LogWrite(log, h, status, ok)

----------------------------------------------------------------------------
\* POST, up to the claim of the job.

\* const payload = await req.json() and the payload checks (route.js:401-418).
\* The invocations are interchangeable: h2 names the one whose webhook arrives
\* second.
Earlier(h) == { g \in Handlers : g = "h1" /\ h = "h2" }

ReceivePayload(h) ==
    /\ hs[h].pc = "idle"
    /\ \A g \in Earlier(h) : hs[g].pc # "idle"
    /\ \E kind \in {"malformed", "test", "other", "noid", "insert"} :
          CASE kind = "malformed" ->
                 \* req.json() throws: jobId is still null in the catch block
                 /\ \E n \in MsgLens :
                       hs' = [hs EXCEPT ![h].pc = "catch",
                                        ![h].error = [kind |-> "payload", len |-> n]]
                 /\ log' = log
            [] kind = "test" ->
                 /\ hs' = [hs EXCEPT ![h].pc = "done", ![h].response = 200]
                 /\ log' = log
            [] kind \in {"other", "noid"} ->
                 /\ hs' = [hs EXCEPT ![h].pc = "done", ![h].response = 400]
                 /\ log' = log
            [] OTHER ->
                 \E j \in JobIds :
                    /\ hs' = [hs EXCEPT ![h].pc = "fetch", ![h].jobId = j]
                    /\ log' = [log EXCEPT ![h].calledOn =
                                  IF j \in DOMAIN queue THEN queue[j].status ELSE "absent"]
    /\ UNCHANGED <<queue, blobs, rowStore>>

\* .from('processing_queue').select('*').eq('id', jobId).single() and the
\* pending guard (route.js:420-431).  single() answers with an error when no
\* row matches, so line 427 is reached only through line 426.
PendingGuard(status) == status # "pending"

FetchJob(h) ==
    /\ hs[h].pc = "fetch"
    /\ \/ \* fetchError: a database error, or no such row
          /\ \E n \in MsgLens :
                hs' = [hs EXCEPT ![h].pc = "catch",
                                 ![h].error = [kind |-> "fetch", len |-> n]]
          /\ log' = log
       \/ /\ hs[h].jobId \in DOMAIN queue
          /\ IF PendingGuard(queue[hs[h].jobId].status)
             THEN /\ hs' = [hs EXCEPT ![h].pc = "done", ![h].response = 200]
                  /\ log' = log
             ELSE /\ hs' = [hs EXCEPT ![h].pc = "inc"]
                  /\ log' = [log EXCEPT ![h].passed = TRUE]
    /\ UNCHANGED <<queue, blobs, rowStore>>

\* supabaseAdmin.rpc('increment_job_attempts', ...) (route.js:433-439): the
\* counter goes up by one in the database, or the call answers with an error,
\* which is logged, and processing goes on.
increment_job_attempts(attempts) == attempts + 1

IncrementAttempts(h) ==
    /\ hs[h].pc = "inc"
    /\ \/ /\ hs[h].jobId \in DOMAIN queue
          /\ queue' = [queue EXCEPT ![hs[h].jobId].attempts = increment_job_attempts(@)]
          /\ log' = [log EXCEPT ![h].incs = @ + 1, ![h].incCalls = @ + 1]
       \/ /\ queue' = queue
          /\ log' = [log EXCEPT ![h].incCalls = @ + 1]
    /\ hs' = [hs EXCEPT ![h].pc = "claim"]
    /\ UNCHANGED <<blobs, rowStore>>

\* await updateJobProgress(jobId, 'processing', {0, 0}) (route.js:442).
ClaimJob(h) ==
    /\ hs[h].pc = "claim"
    /\ WriteQueue(h, "processing", Both(0, 0), NoError)
    /\ hs' = [hs EXCEPT ![h].pc = "download"]
    /\ UNCHANGED <<blobs, rowStore>>

----------------------------------------------------------------------------
\* processFile (route.js:129-190).

Throw(h, kind) ==
    \E n \in MsgLens :
       hs' = [hs EXCEPT ![h].pc = "catch", ![h].error = [kind |-> kind, len |-> n]]

\* The download and the dispatch on the extension (route.js:142-177).
DownloadFile(h) ==
    /\ hs[h].pc = "download"
    /\ log' = [log EXCEPT ![h].downloads = @ + 1]
    /\ LET f == blobs[hs[h].jobId] IN
       \/ Throw(h, "download")
       \/ Throw(h, "emptyblob")
       \/ /\ f.ext = "csv"
          /\ hs' = [hs EXCEPT ![h].pc = "csv_total", ![h].file = f,
                              ![h].totalRowCount = f.est]
       \/ /\ f.ext = "xlsx"
          /\ \/ Throw(h, "xlsxload")
             \/ hs' = [hs EXCEPT ![h].pc = "xlsx_total", ![h].file = f,
                                 ![h].totalRowCount =
                                     IF f.sheet THEN f.est - 1 ELSE 0]
       \/ /\ f.ext = "pdf"
          /\ hs' = [hs EXCEPT ![h].pc = "pdf", ![h].file = f]
       \/ /\ f.ext \notin {"csv", "xlsx", "pdf"}
          /\ Throw(h, "unsupported")
    /\ UNCHANGED <<queue, blobs, rowStore>>

\* A variant that counts the document as one row.
PdfCompleteOneRow(h) ==
    /\ hs[h].pc = "pdf"
    /\ WriteQueue(h, "completed", Both(1, 1), NoError)
    /\ hs' = [hs EXCEPT ![h].pc = "final_read"]
    /\ UNCHANGED <<blobs, rowStore>>

\* PDF: marked completed with 0 rows inside processFile (route.js:171-174).
PdfComplete(h) ==
    /\ hs[h].pc = "pdf"
    /\ WriteQueue(h, "completed", Both(0, 0), NoError)
    /\ hs' = [hs EXCEPT ![h].pc = "final_read"]
    /\ UNCHANGED <<blobs, rowStore>>

\* The CSV total written again after parseCsv returned (route.js:180-182).
CsvTotalAfter(h) ==
    /\ hs[h].pc = "csv_total2"
    /\ WriteQueue(h, "processing", Total(hs[h].totalRowCount), NoError)
    /\ hs' = [hs EXCEPT ![h].pc = "final_read"]
    /\ UNCHANGED <<blobs, rowStore>>

----------------------------------------------------------------------------
\* Cell values and the coercers of processBatch (route.js:295-307).  A string
\* is a sequence of one-character strings; a cell is None (undefined: the
\* record has no such column) or Some(string), where the string is String(val)
\* of the cell, the decimal text of a numeric XLSX cell included.

Digits == {"0", "1", "2", "3", "4", "5", "6", "7", "8", "9"}

DigitVal(c) ==
    CASE c = "0" -> 0 [] c = "1" -> 1 [] c = "2" -> 2 [] c = "3" -> 3
      [] c = "4" -> 4 [] c = "5" -> 5 [] c = "6" -> 6 [] c = "7" -> 7
      [] c = "8" -> 8 [] c = "9" -> 9

\* rowData[col]
Cell(rowData, col) == IF col \in DOMAIN rowData THEN Some(rowData[col]) ELSE None

\* String.prototype.trim, for the blank of the modelled alphabet.
RECURSIVE TrimLeft(_)
TrimLeft(s) == IF s # <<>> /\ Head(s) = " " THEN TrimLeft(Tail(s)) ELSE s

RECURSIVE TrimRight(_)
TrimRight(s) ==
    IF s # <<>> /\ s[Len(s)] = " " THEN TrimRight(SubSeq(s, 1, Len(s) - 1)) ELSE s

Trim(s) == TrimRight(TrimLeft(s))

\* (val !== undefined && val !== null && val !== '') ? String(val).trim() : null
valueOrNull(val) ==
    IF val # None /\ Val(val) # <<>> THEN Some(Trim(Val(val))) ELSE None

\* parseFloat: blanks are skipped, then a sign, digits, and a point with
\* digits are read; what follows is ignored; NaN (None) when no digit was
\* read.  A number is kept as its sign, its integer part and the digits of
\* its fraction without trailing zeros.  The modelled alphabet has no
\* exponent and no Infinity.
RECURSIVE DigitPrefix(_)
DigitPrefix(s) ==
    IF s # <<>> /\ Head(s) \in Digits
    THEN <<Head(s)>> \o DigitPrefix(Tail(s))
    ELSE <<>>

RECURSIVE NatOf(_)
NatOf(d) ==
    IF d = <<>> THEN 0
    ELSE NatOf(SubSeq(d, 1, Len(d) - 1)) * 10 + DigitVal(d[Len(d)])

RECURSIVE DropTrailingZeros(_)
DropTrailingZeros(d) ==
    IF d # <<>> /\ d[Len(d)] = "0"
    THEN DropTrailingZeros(SubSeq(d, 1, Len(d) - 1))
    ELSE d

parseFloat(s) ==
    LET t == TrimLeft(s)
        signed == t # <<>> /\ Head(t) \in {"-", "+"}
        u == IF signed THEN Tail(t) ELSE t
        ip == DigitPrefix(u)
        rest == SubSeq(u, Len(ip) + 1, Len(u))
        fp == IF rest # <<>> /\ Head(rest) = "."
              THEN DropTrailingZeros(DigitPrefix(Tail(rest)))
              ELSE <<>>
        pointDigits == rest # <<>> /\ Head(rest) = "." /\ DigitPrefix(Tail(rest)) # <<>>
    IN
    IF ip = <<>> /\ ~pointDigits
    THEN None
    ELSE Some([neg |-> signed /\ Head(t) = "-" /\ (NatOf(ip) # 0 \/ fp # <<>>),
               int |-> NatOf(ip),
               frac |-> fp])

\* A variant that hands the text to parseFloat as it is.
numOrNullAsWritten(val) ==
    IF val = None \/ Val(val) = <<>> THEN None ELSE parseFloat(Val(val))

\* numOrNull (route.js:296-301): String(val).replace(/[$,]+/g, ''), parseFloat.
numOrNull(val) ==
    IF val = None \/ Val(val) = <<>>
    THEN None
    ELSE parseFloat(SelectSeq(Val(val), LAMBDA c : c \notin {"$", ","}))

----------------------------------------------------------------------------
\* The period of a row (route.js:320-341).

\* originalPeriod.replace(/[^0-9]/g, '')
StripNonDigits(s) == SelectSeq(s, LAMBDA c : c \in Digits)

Num2(a, b) == DigitVal(a) * 10 + DigitVal(b)

\* A variant of the pattern that takes any two digits for the month.
ValidYYYYMMAnyMonth(d) ==
    /\ Len(d) = 6
    /\ <<d[1], d[2]>> \in {<<"1", "9">>, <<"2", "0">>}

\* /^(19|20)\d{2}(0[1-9]|1[0-2])$/ on a string of digits
ValidYYYYMM(d) ==
    /\ Len(d) = 6
    /\ <<d[1], d[2]>> \in {<<"1", "9">>, <<"2", "0">>}
    /\ Num2(d[5], d[6]) \in 1..12

\* A variant of the pattern that takes any two digits for the day.
ValidYYYYMMDDAnyDay(d) ==
    /\ Len(d) = 8
    /\ ValidYYYYMM(SubSeq(d, 1, 6))

\* /^(19|20)\d{2}(0[1-9]|1[0-2])(0[1-9]|[12]\d|3[01])$/ on a string of digits
ValidYYYYMMDD(d) ==
    /\ Len(d) = 8
    /\ ValidYYYYMM(SubSeq(d, 1, 6))
    /\ Num2(d[7], d[8]) \in 1..31

\* A variant that takes the last six digits.
TrailingPeriod(d) == SubSeq(d, Len(d) - 5, Len(d))

\* cleanedPeriod.substring(0, 6)
LeadingPeriod(d) == SubSeq(d, 1, 6)

\* A variant that stores the trimmed text of the cell as it is.
formattedPeriodVerbatim(raw) == valueOrNull(raw)

\* formattedPeriod, from rowData['Income Period'].
formattedPeriod(raw) ==
    LET originalPeriod == valueOrNull(raw) IN
    IF originalPeriod = None \/ Val(originalPeriod) = <<>>
    THEN None
    ELSE LET cleanedPeriod == StripNonDigits(Val(originalPeriod)) IN
         IF Len(cleanedPeriod) = 6 /\ ValidYYYYMM(cleanedPeriod)
         THEN Some(cleanedPeriod)
         ELSE IF Len(cleanedPeriod) = 8 /\ ValidYYYYMMDD(cleanedPeriod)
         THEN Some(LeadingPeriod(cleanedPeriod))
         ELSE IF Len(cleanedPeriod) >= RangeMinDigits
         THEN IF ValidYYYYMM(LeadingPeriod(cleanedPeriod))
              THEN Some(LeadingPeriod(cleanedPeriod))
              ELSE None
         ELSE None

----------------------------------------------------------------------------
\* The raw records of a file.  Data row i of every modelled file is
\* RawRecord(i): the four columns of a royalty statement, with a plain
\* period and a currency amount, an unrecognised period and an unparseable
\* amount, a range of periods, and a date with an empty amount.
Str100047 == <<"1", "0", "0", "0", "4", "7">>
StrStreaming == <<"S", "t", "r", "e", "a", "m", "i", "n", "g">>
StrSync == <<"S", "y", "n", "c">>

RawRow(code, period, type, amount) ==
    ("Client Code" :> code) @@ ("Income Period" :> period)
        @@ ("Income Type Name" :> type) @@ ("Amount Collected" :> amount)

RawRecords ==
    << RawRow(Str100047, <<"2", "0", "2", "3", "1", "2">>, StrStreaming,
              <<"$", "1", ",", "2", "3", "4", ".", "5", "6">>),
       RawRow(Str100047, <<"a", "b", "c", "1", "2", "3">>, StrStreaming,
              <<"n", "/", "a">>),
       RawRow(Str100047,
              <<"2", "0", "2", "4", "0", "1", "-", "2", "0", "2", "4", "0", "3">>,
              StrSync, <<"1", "2">>),
       RawRow(Str100047, <<"2", "0", "2", "4", "0", "1", "1", "5">>, StrSync, <<>>) >>

RawRecord(i) == RawRecords[((i - 1) % Len(RawRecords)) + 1]

\* rowsToUpsert.push({...}) (route.js:344-362), with the embedding that is
\* attached later (route.js:376).
MapRow(file_id, rowData, contentString, embedding) ==
    [ file_id |-> file_id,
      catalog |-> valueOrNull(Cell(rowData, "Client Code")),
      client_name |-> valueOrNull(Cell(rowData, "Client Name")),
      period |-> formattedPeriod(Cell(rowData, "Income Period")),
      metric |-> valueOrNull(Cell(rowData, "Income Type Name")),
      value |-> numOrNull(Cell(rowData, "Amount Collected")),
      content |-> contentString,
      song_title |-> valueOrNull(Cell(rowData, "Song Title")),
      artist |-> valueOrNull(Cell(rowData, "Artist")),
      composers |-> valueOrNull(Cell(rowData, "Composers")),
      source_name |-> valueOrNull(Cell(rowData, "Source Name")),
      income_type |-> valueOrNull(Cell(rowData, "Income Type Name")),
      units |-> numOrNull(Cell(rowData, "Units")),
      amount_collected |-> numOrNull(Cell(rowData, "Amount Collected")),
      royalty_payable |-> numOrNull(Cell(rowData, "Royalty Payable")),
      isrc |-> valueOrNull(Cell(rowData, "ISRC")),
      embedding |-> embedding ]

----------------------------------------------------------------------------
\* processBatch (route.js:284-393).

\* The rows built from the batch (route.js:312-363), each with the embedding
\* of its own position in the results of Promise.all (route.js:375-377).
CanonicalRow(h, src, emb) ==
    MapRow(hs[h].jobId, RawRecord(src), Content(src), emb)

\* A variant whose loop stops one row early: the last row keeps no embedding.
AttachEmbeddingsOffByOne(h, batch, results) ==
    [i \in 1..Len(batch) |->
        CanonicalRow(h, batch[i],
                     IF i < Len(batch) THEN Val(results[i]) ELSE NoEmbedding)]

\* A variant that joins the vectors to the rows from the last to the first.
AttachEmbeddingsReversed(h, batch, results) ==
    [i \in 1..Len(batch) |->
        CanonicalRow(h, batch[i], Val(results[Len(batch) + 1 - i]))]

AttachEmbeddings(h, batch, results) ==
    [i \in 1..Len(batch) |-> CanonicalRow(h, batch[i], Val(results[i]))]

\* The synchronous head of processBatch(batch): one embed request per row, all
\* issued before the first await (route.js:368-369).
StartBatch(st, batch, caller) ==
    [st EXCEPT !.task = "embed",
               !.ret = caller,
               !.inflight = @ + 1,
               !.embResults = [i \in 1..Len(batch) |-> None],
               !.rowsToUpsert = <<>>]

LogBatch(lg, h, batch) ==
    [lg EXCEPT ![h].embeds = @ + Len(batch),
               ![h].batches = Append(@, batch[1]),
               ![h].afterThrow = IF lg[h].thrown # 0 THEN @ + 1 ELSE @]

\* parser.abort() in the step callback's catch block (route.js:218).  Papa's
\* abort() stops the parser and calls the complete callback of the config,
\* here route.js:225-239, which finds the failed batch still in rowsBatch
\* (line 213 was not reached) and hands it to processBatch again.
AbortRunsComplete == TRUE

\* processBatch threw (route.js:378-381, 388-391): what its caller does.
BatchThrow(h, err, lg0) ==
    LET st == [hs[h] EXCEPT !.inflight = @ - 1, !.embResults = <<>>,
                            !.rowsToUpsert = <<>>]
        lg == [lg0 EXCEPT ![h].thrown = IF @ = 0 THEN hs[h].rowsBatch[1] ELSE @]
    IN
    CASE st.ret = "xlsx" ->
           \* the exception leaves parseXlsx and processFile (route.js:186-189)
           /\ hs' = [hs EXCEPT ![h] = [st EXCEPT !.task = "ended", !.pc = "catch",
                                                 !.error = err]]
           /\ log' = lg
      [] st.ret = "step" ->
           \* catch (route.js:216-220): abort, reject; finally: resume
           LET rej == [st EXCEPT !.aborted = TRUE, !.paused = FALSE,
                                 !.promise = "rejected", !.pc = "catch",
                                 !.error = err]
           IN
           IF AbortRunsComplete /\ Len(st.rowsBatch) > 0
           THEN /\ hs' = [hs EXCEPT ![h] = StartBatch(rej, st.rowsBatch, "complete")]
                /\ log' = LogBatch(lg, h, st.rowsBatch)
           ELSE /\ hs' = [hs EXCEPT ![h] = [rej EXCEPT !.task = "ended"]]
                /\ log' = lg
      [] OTHER ->
           \* complete's catch (route.js:235-238): reject, a no-op on a settled promise
           /\ hs' = [hs EXCEPT ![h] =
                 IF st.promise = "pending"
                 THEN [st EXCEPT !.task = "ended", !.promise = "rejected",
                                 !.pc = "catch", !.error = err]
                 ELSE [st EXCEPT !.task = "ended"]]
           /\ log' = lg

\* One embed request of the batch in flight settles.  Promise.all rejects on
\* the first failure; when the last vector arrives the vectors are attached
\* by index and the upsert is next.
EmbedSettle(h) ==
    /\ hs[h].task = "embed"
    /\ \E i \in 1..Len(hs[h].embResults) :
          /\ hs[h].embResults[i] = None
          /\ \/ LET res == [hs[h].embResults EXCEPT
                               ![i] = Some(Embedding(Content(hs[h].rowsBatch[i])))]
                    all == \A k \in 1..Len(res) : IsSome(res[k])
                IN /\ hs' = [hs EXCEPT
                        ![h].embResults = res,
                        ![h].rowsToUpsert =
                            IF all THEN AttachEmbeddings(h, hs[h].rowsBatch, res) ELSE @,
                        ![h].task = IF all THEN "upsert" ELSE @]
                   /\ log' = log
             \/ \E n \in MsgLens : BatchThrow(h, [kind |-> "embedding", len |-> n], log)
    /\ UNCHANGED <<queue, blobs, rowStore>>

\* .from('rows').upsert(rowsToUpsert) (route.js:384-391): one statement, all
\* rows or an error.  The rows carry no id, so each one is inserted.
SeqToBag(rows) == [r \in {rows[i] : i \in 1..Len(rows)} |-> 1]

UpsertRows(store, rows) == store (+) SeqToBag(rows)

UpsertBatch(h) ==
    /\ hs[h].task = "upsert"
    /\ \/ /\ rowStore' = UpsertRows(rowStore, hs[h].rowsToUpsert)
          /\ hs' = [hs EXCEPT ![h].task = "checkpoint", ![h].inflight = @ - 1,
                              ![h].embResults = <<>>, ![h].rowsToUpsert = <<>>]
          /\ log' = [log EXCEPT ![h].upserts = @ + 1]
       \/ /\ rowStore' = rowStore
          /\ \E n \in MsgLens :
                BatchThrow(h, [kind |-> "upsert", len |-> n],
                           [log EXCEPT ![h].upserts = @ + 1])
    /\ UNCHANGED <<queue, blobs>>

----------------------------------------------------------------------------
\* parseCsv (route.js:193-246).

\* await updateJobProgress(... total_row_count) and the call of Papa.parse
\* (route.js:196-201).
CsvTotal(h) ==
    /\ hs[h].pc = "csv_total"
    /\ WriteQueue(h, "processing", Total(hs[h].file.est), NoError)
    /\ hs' = [hs EXCEPT ![h].pc = "await_parse", ![h].task = "parse",
                        ![h].promise = "pending"]
    /\ UNCHANGED <<blobs, rowStore>>

\* A step callback that does not pause the parser.
NoPauseOnStep == FALSE

\* parser.pause() at the head of the step callback (route.js:205).
PauseOnStep == TRUE

\* The parser may hand out a row or finish only while it runs.
ParserRuns(st) ==
    /\ st.promise # "none"
    /\ st.file.ext = "csv"
    /\ ~st.paused
    /\ ~st.aborted
    /\ st.task \notin {"none", "ended"}

\* The step callback for the next data row (route.js:204-224).
CsvStep(h) ==
    /\ ParserRuns(hs[h])
    /\ hs[h].nextRow <= hs[h].file.rows
    /\ LET st == [hs[h] EXCEPT !.paused = PauseOnStep,
                               !.rowsBatch = Append(@, hs[h].nextRow),
                               !.currentProcessed = @ + 1,
                               !.nextRow = @ + 1]
           late == hs[h].inflight > 0
           lg == [log EXCEPT ![h].lateRows = IF late THEN @ + 1 ELSE @]
       IN
       IF ~late /\ Len(st.rowsBatch) >= BATCH_SIZE
       THEN /\ hs' = [hs EXCEPT ![h] = StartBatch(st, st.rowsBatch, "step")]
            /\ log' = LogBatch(lg, h, st.rowsBatch)
       ELSE \* updateProcessedCount; finally: parser.resume()
            /\ hs' = [hs EXCEPT ![h] = [st EXCEPT
                        !.processedRowCount = st.currentProcessed,
                        !.paused = IF late THEN @ ELSE FALSE]]
            /\ log' = lg
    /\ UNCHANGED <<queue, blobs, rowStore>>

\* The complete callback at the end of the input (route.js:225-239).
CsvComplete(h) ==
    /\ ParserRuns(hs[h])
    /\ hs[h].task = "parse"
    /\ hs[h].nextRow > hs[h].file.rows
    /\ IF Len(hs[h].rowsBatch) > 0
       THEN /\ hs' = [hs EXCEPT ![h] = StartBatch(hs[h], hs[h].rowsBatch, "complete")]
            /\ log' = LogBatch(log, h, hs[h].rowsBatch)
       ELSE /\ hs' = [hs EXCEPT ![h].processedRowCount = hs[h].currentProcessed,
                                ![h].task = "ended",
                                ![h].promise = "resolved",
                                ![h].pc = "csv_total2"]
            /\ log' = log
    /\ UNCHANGED <<queue, blobs, rowStore>>

----------------------------------------------------------------------------
\* parseXlsx (route.js:249-280).

\* The early total (route.js:168-169) and the entry of parseXlsx.
XlsxTotal(h) ==
    /\ hs[h].pc = "xlsx_total"
    /\ WriteQueue(h, "processing", Total(hs[h].totalRowCount), NoError)
    /\ IF ~hs[h].file.sheet
       THEN Throw(h, "nosheet")
       ELSE IF hs[h].file.est < 2
            THEN hs' = [hs EXCEPT ![h].pc = "final_read"]
            ELSE hs' = [hs EXCEPT ![h].pc = "await_parse", ![h].task = "xlsx"]
    /\ UNCHANGED <<blobs, rowStore>>

\* One turn of the loop over rows 2..rowCount (route.js:259-278); data row
\* nextRow is sheet row nextRow + 1.
XlsxRow(h) ==
    /\ hs[h].task = "xlsx"
    /\ hs[h].nextRow + 1 <= hs[h].file.est
    /\ LET st == [hs[h] EXCEPT !.rowsBatch = Append(@, hs[h].nextRow),
                               !.currentProcessed = @ + 1,
                               !.nextRow = @ + 1]
       IN
       IF Len(st.rowsBatch) >= BATCH_SIZE \/ hs[h].nextRow + 1 = hs[h].file.est
       THEN /\ hs' = [hs EXCEPT ![h] = StartBatch(st, st.rowsBatch, "xlsx")]
            /\ log' = LogBatch(log, h, st.rowsBatch)
       ELSE /\ hs' = [hs EXCEPT ![h] = [st EXCEPT
                        !.processedRowCount = st.currentProcessed]]
            /\ log' = log
    /\ UNCHANGED <<queue, blobs, rowStore>>

----------------------------------------------------------------------------
\* A variant in which the error of a checkpoint write is thrown to the
\* handler's catch block.
CheckpointFatal(h) ==
    /\ hs[h].task = "checkpoint"
    /\ queue' = queue
    /\ log' = LogWrite(log, h, "processing", FALSE)
    /\ hs' = [hs EXCEPT ![h].task = "ended", ![h].pc = "catch",
                        ![h].error = [kind |-> "checkpoint", len |-> 40]]
    /\ UNCHANGED <<blobs, rowStore>>

\* The progress checkpoint after a batch (route.js:212, 231, 273) and the
\* code of the caller that follows it.
Checkpoint(h) ==
    /\ hs[h].task = "checkpoint"
    /\ WriteQueue(h, "processing", Processed(hs[h].currentProcessed), NoError)
    /\ LET st == [hs[h] EXCEPT !.processedRowCount = hs[h].currentProcessed] IN
       CASE st.ret = "step" ->
              \* rowsBatch = []; finally: parser.resume()
              hs' = [hs EXCEPT ![h] = [st EXCEPT !.rowsBatch = <<>>, !.paused = FALSE,
                                                 !.task = "parse"]]
         [] st.ret = "complete" ->
              \* resolve(): a no-op on a settled promise
              hs' = [hs EXCEPT ![h] =
                 IF st.promise = "pending"
                 THEN [st EXCEPT !.task = "ended", !.promise = "resolved",
                                 !.pc = "csv_total2"]
                 ELSE [st EXCEPT !.task = "ended"]]
         [] OTHER ->
              \* rowsBatch = []; the loop ends after its last row
              hs' = [hs EXCEPT ![h] =
                 IF st.nextRow + 1 > st.file.est
                 THEN [st EXCEPT !.rowsBatch = <<>>, !.task = "ended",
                                 !.pc = "final_read"]
                 ELSE [st EXCEPT !.rowsBatch = <<>>, !.task = "xlsx"]]
    /\ UNCHANGED <<blobs, rowStore>>

----------------------------------------------------------------------------
\* POST after processFile (route.js:448-466).

\* select('processed_row_count, total_row_count').eq('id', jobId).single();
\* only data is destructured, so an error leaves finalJobData null.
FinalRead(h) ==
    /\ hs[h].pc = "final_read"
    /\ \/ /\ hs[h].jobId \in DOMAIN queue
          /\ hs' = [hs EXCEPT ![h].pc = "final_write",
                       ![h].finalJobData =
                           Some([processed_row_count |-> queue[hs[h].jobId].processed_row_count,
                                 total_row_count |-> queue[hs[h].jobId].total_row_count])]
       \/ hs' = [hs EXCEPT ![h].pc = "final_write", ![h].finalJobData = None]
    /\ UNCHANGED <<queue, blobs, rowStore, log>>

\* finalJobData?.x ?? 0
FinalCounts(data) ==
    IF IsSome(data)
    THEN Both(Val(data).processed_row_count, Val(data).total_row_count)
    ELSE Both(0, 0)

FinalWrite(h) ==
    /\ hs[h].pc = "final_write"
    /\ WriteQueue(h, "completed", FinalCounts(hs[h].finalJobData), NoError)
    /\ hs' = [hs EXCEPT ![h].pc = "done", ![h].response = 200]
    /\ UNCHANGED <<blobs, rowStore>>

\* The catch block (route.js:459-466).
CatchError(h) ==
    /\ hs[h].pc = "catch"
    /\ IF hs[h].jobId # "none"
       THEN /\ WriteQueue(h, "failed", NoProgress, hs[h].error)
       ELSE UNCHANGED <<queue, log>>
    /\ hs' = [hs EXCEPT ![h].pc = "done", ![h].response = 500]
    /\ UNCHANGED <<blobs, rowStore>>

----------------------------------------------------------------------------
\* One job, j1, inserted as pending with some file at its storage_path; the
\* webhooks of the handlers have not been delivered yet.
Init ==
    /\ queue = [j \in {"j1"} |-> NewJob]
    /\ blobs \in [{"j1"} -> Files]
    /\ rowStore = EmptyBag
    /\ hs = [h \in Handlers |-> InitHandler]
    /\ log = [h \in Handlers |-> InitLog]

Next ==
    \E h \in Handlers :
       \/ ReceivePayload(h)
       \/ FetchJob(h)
       \/ IncrementAttempts(h)
       \/ ClaimJob(h)
       \/ DownloadFile(h)
       \/ PdfComplete(h)
       \/ CsvTotal(h)
       \/ CsvStep(h)
       \/ CsvComplete(h)
       \/ CsvTotalAfter(h)
       \/ XlsxTotal(h)
       \/ XlsxRow(h)
       \/ EmbedSettle(h)
       \/ UpsertBatch(h)
       \/ Checkpoint(h)
       \/ FinalRead(h)
       \/ FinalWrite(h)
       \/ CatchError(h)

Spec == Init /\ [][Next]_vars

----------------------------------------------------------------------------
\* Two jobs, each inserted as pending with its own small file: a CSV file
\* with one data row for j1, a worksheet with one data row or a PDF for j2.
TwoJobBlobs ==
    { [j \in JobIds |->
          IF j = "j1"
          THEN [ext |-> "csv", rows |-> 1, est |-> 2, sheet |-> FALSE]
          ELSE f] :
      f \in { [ext |-> "xlsx", rows |-> 1, est |-> 2, sheet |-> TRUE],
              [ext |-> "pdf", rows |-> 0, est |-> 0, sheet |-> FALSE] } }

Init2Jobs ==
    /\ queue = [j \in JobIds |-> NewJob]
    /\ blobs \in TwoJobBlobs
    /\ rowStore = EmptyBag
    /\ hs = [h \in Handlers |-> InitHandler]
    /\ log = [h \in Handlers |-> InitLog]

Spec2Jobs == Init2Jobs /\ [][Next]_vars

----------------------------------------------------------------------------
\* processBatch on the batch of one raw record, with no failing call, run up
\* to MaxPasses times on the same record.  The record is kept in blobs, the
\* rows in rowStore.

\* The texts of the 'Income Period' cell: up to MaxTokens pieces, each a
\* period, a year, two digits, or a character that is not a digit.
PeriodTokens ==
    { <<"2", "0", "2", "4", "0", "1">>, <<"2", "0", "2", "4", "0", "3">>,
      <<"2", "0", "2", "4", "1", "3">>, <<"2", "1", "0", "0", "0", "1">>,
      <<"1", "9", "9", "9">>,
      <<"0", "1">>, <<"3", "1">>, <<"3", "2">>, <<"0", "0">>,
      <<"-">>, <<"a">>, <<" ">> }

RECURSIVE Concat(_)
Concat(pieces) ==
    IF pieces = <<>> THEN <<>> ELSE Head(pieces) \o Concat(Tail(pieces))

PeriodTexts ==
    { Concat(ts) : ts \in UNION { [1..n -> PeriodTokens] : n \in 0..MaxTokens } }

\* The texts of a cell that valueOrNull reads: empty, blank, padded, plain.
ValueTexts ==
    { <<>>, <<" ">>, <<" ", " ">>, Str100047, <<" ", "a", " ">>,
      <<"a", " ", "b">>, <<" ">> \o StrSync, StrStreaming \o <<" ">> }

\* The texts of a cell that numOrNull reads.
AmountTexts ==
    { <<"$", "1", ",", "2", "3", "4", ".", "5", "6">>, <<"n", "/", "a">>, <<>>,
      <<"1", "2">>, <<"-", "5", ".", "5", "0">>, <<"$">>, <<" ", "7">>,
      <<"1", ",", "2", ",", ",", "3">>, <<"$", "-", "3">>,
      <<"1", ".", "5", "0", "$", "9">> }

\* A record with the period text s, a record with no such column, and the
\* records of a statement with a plain period and any of the other texts.
RowInputs ==
    { ("Client Code" :> Str100047) @@ ("Income Period" :> s) : s \in PeriodTexts }
        \cup { ("Client Code" :> Str100047) @@ ("Income Type Name" :> StrSync) }
        \cup { RawRow(c, <<"2", "0", "2", "3", "1", "2">>, t, a) :
                  c \in ValueTexts, t \in ValueTexts, a \in AmountTexts }

RowInit ==
    /\ queue = [j \in {"j1"} |-> NewJob]
    /\ blobs \in [{"j1"} -> RowInputs]
    /\ rowStore = EmptyBag
    /\ hs = [h \in Handlers |-> InitHandler]
    /\ log = [h \in Handlers |-> InitLog]

processBatch ==
    /\ BagCardinality(rowStore) < MaxPasses
    /\ rowStore' = UpsertRows(rowStore,
                      << MapRow("j1", blobs["j1"], Content(1), Embedding(Content(1))) >>)
    /\ UNCHANGED <<queue, blobs, hs, log>>

RowNext == processBatch

RowSpec == RowInit /\ [][RowNext]_vars

----------------------------------------------------------------------------
\* The walk of a worksheet with a header row and one data row, by parseXlsx
\* of the worker (route.js:249-280) and by ingestBuffer (part_005:51-73),
\* with no failing call.  The sheet is kept in blobs, the rows in rowStore.

\* cell.value of a cell: null, a text (String(val) of a string or a number),
\* a formula {formula, result} whose result may be missing, or a rich text
\* {richText: [{text}, ...]}.
NullCell == [kind |-> "null", text |-> <<>>, result |-> None, runs |-> <<>>]
TextCell(s) == [kind |-> "text", text |-> s, result |-> None, runs |-> <<>>]
FormulaCell(f, res) == [kind |-> "formula", text |-> f, result |-> res, runs |-> <<>>]
RichTextCell(runs) == [kind |-> "richText", text |-> <<>>, result |-> None, runs |-> runs]

SheetCells ==
    { NullCell, TextCell(Str100047), TextCell(<<"1", "2">>),
      FormulaCell(<<"=", "B", "2">>, Some(<<"1", "2">>)),
      FormulaCell(<<"=", "B", "2">>, None),
      RichTextCell(<< <<"1", "0", "0">>, <<"0", "4", "7">> >>) }

\* The value of a cell of row 1: no value, the empty string, or a name.
HeaderCells == { None, Some(""), Some("Client Code"), Some("Amount Collected") }

Sheets ==
    [ headers : [1..MaxCols -> HeaderCells], row : [1..MaxCols -> SheetCells] ]

\* String(val) of a cell value that is not null: an object that is not a
\* Date gives '[object Object]'.
ObjectObject ==
    <<"[", "o", "b", "j", "e", "c", "t", " ", "O", "b", "j", "e", "c", "t", "]">>

StringOf(v) == IF v.kind = "text" THEN v.text ELSE ObjectObject

\* The record of names and values that a walk builds, a later column of a
\* name taking the place of an earlier one; a null value is left out, since
\* the coercers take null as they take undefined.
RecordOf(names, values) ==
    LET cols == DOMAIN names
        last(nm) == CHOOSE i \in cols :
                       names[i] = nm /\ \A k \in cols : names[k] = nm => k <= i
        kept == { nm \in {names[i] : i \in cols} : values[last(nm)].kind # "null" }
    IN [nm \in kept |-> StringOf(values[last(nm)])]

\* headers[colNumber - 1] || `column_${colNumber}` (route.js:263)
parseXlsxHeader(sheet, colNumber) ==
    LET header == sheet.headers[colNumber] IN
    IF header # None /\ Val(header) # ""
    THEN Val(header)
    ELSE "column_" \o ToString(colNumber)

\* rowData[headerName] = cell.value (route.js:262-265)
parseXlsxRowData(sheet) ==
    RecordOf([n \in DOMAIN sheet.row |-> parseXlsxHeader(sheet, n)], sheet.row)

\* headers[colNumber - 1] of ingestBuffer (part_005:55-58): eachCell visits
\* the columns up to the last cell of row 1, so a column after it has the
\* name undefined.
ingestBufferHeader(sheet, colNumber) ==
    LET header == sheet.headers[colNumber] IN
    IF \A k \in DOMAIN sheet.headers : k >= colNumber => sheet.headers[k] = None
    THEN "undefined"
    ELSE IF header # None /\ Val(header) # ""
    THEN Val(header)
    ELSE "Column_" \o ToString(colNumber)

\* The realization of a cell value (part_005:63-68).
Realize(value) ==
    IF value.kind = "formula" /\ value.result # None
    THEN TextCell(Val(value.result))
    ELSE IF value.kind = "richText"
    THEN TextCell(Concat(value.runs))
    ELSE value

ingestBufferRowData(sheet) ==
    RecordOf([n \in DOMAIN sheet.row |-> ingestBufferHeader(sheet, n)],
             [n \in DOMAIN sheet.row |-> Realize(sheet.row[n])])

\* formattedPeriod of ingestBuffer (part_005:135-146)
ingestBufferPeriod(raw) ==
    LET p == valueOrNull(raw) IN
    IF p = None \/ Val(p) = <<>>
    THEN p
    ELSE LET digits == StripNonDigits(Val(p)) IN
         IF Len(digits) \in {6, 8} THEN Some(digits) ELSE None

\* The row that ingestBuffer inserts (part_005:149-171, 182-187); it sets no
\* file_id and no client_name.
ingestBufferRow(row, content, embedding) ==
    [ file_id |-> "none",
      catalog |-> valueOrNull(Cell(row, "Client Code")),
      client_name |-> None,
      period |-> ingestBufferPeriod(Cell(row, "Income Period")),
      metric |-> valueOrNull(Cell(row, "Income Type Name")),
      value |-> numOrNull(Cell(row, "Amount Collected")),
      content |-> content,
      song_title |-> valueOrNull(Cell(row, "Song Title")),
      artist |-> valueOrNull(Cell(row, "Artist")),
      composers |-> valueOrNull(Cell(row, "Composers")),
      source_name |-> valueOrNull(Cell(row, "Source Name")),
      income_type |-> valueOrNull(Cell(row, "Income Type Name")),
      units |-> numOrNull(Cell(row, "Units")),
      amount_collected |-> numOrNull(Cell(row, "Amount Collected")),
      royalty_payable |-> numOrNull(Cell(row, "Royalty Payable")),
      isrc |-> valueOrNull(Cell(row, "ISRC")),
      embedding |-> embedding ]

SheetInit ==
    /\ queue = [j \in {"j1"} |-> NewJob]
    /\ blobs \in [{"j1"} -> Sheets]
    /\ rowStore = EmptyBag
    /\ hs = [h \in Handlers |-> InitHandler]
    /\ log = [h \in Handlers |-> InitLog]

\* parseXlsx on the sheet of job j1: the one data row is the last row, so it
\* is flushed through processBatch and the checkpoint is written.
parseXlsx ==
    /\ log["h1"].upserts = 0
    /\ rowStore' = UpsertRows(rowStore,
                      << MapRow("j1", parseXlsxRowData(blobs["j1"]),
                                Content(1), Embedding(Content(1))) >>)
    /\ queue' = updateJobProgress(queue, "j1", "processing", Processed(1), NoError)
    /\ log' = [log EXCEPT !["h1"].embeds = 1, !["h1"].upserts = 1,
                          !["h1"].writes = 1]
    /\ UNCHANGED <<blobs, hs>>

\* ingestBuffer on the same sheet: a data row without a value is skipped by
\* eachRow, and nothing is inserted when no row was parsed (part_005:94-97).
ingestBuffer ==
    /\ log["h2"].upserts = 0
    /\ \E n \in DOMAIN blobs["j1"].row : blobs["j1"].row[n].kind # "null"
    /\ rowStore' = UpsertRows(rowStore,
                      << ingestBufferRow(ingestBufferRowData(blobs["j1"]),
                                         Content(1), Embedding(Content(1))) >>)
    /\ log' = [log EXCEPT !["h2"].embeds = 1, !["h2"].upserts = 1]
    /\ UNCHANGED <<queue, blobs, hs>>

SheetNext == parseXlsx \/ ingestBuffer

SheetSpec == SheetInit /\ [][SheetNext]_vars

----------------------------------------------------------------------------
\* The mapping of a requested metric name to a column of the rows table by
\* the query functions of part_006.  A name is a word in lower case and
\* whether some letter of it is written in upper case; undefined is a name
\* that was not given.  The request is kept in blobs, and rowStore holds one
\* record for every query issued: who issued it and on which column.

Name(word, caps) == [given |-> TRUE, word |-> word, caps |-> caps]
Undefined == [given |-> FALSE, word |-> "", caps |-> FALSE]
Column(word) == Name(word, FALSE)

MetricWords ==
    { "amount_collected", "collected", "gross", "earnings",
      "royalty_payable", "payable", "net", "royalty_line",
      "units", "value", "metric_value", "revenue" }

MetricNames ==
    { Name(w, c) : w \in MetricWords, c \in BOOLEAN } \cup { Name("", FALSE) }

\* String.prototype.toLowerCase
toLowerCase(name) == [name EXCEPT !.caps = FALSE]

\* [...].includes(filterLower)
Includes(words, filterLower) ==
    filterLower.given /\ ~filterLower.caps /\ filterLower.word \in words

\* dbColumnName of calculateMetricSummary (part_006:115-129)
calculateMetricSummaryColumn(metric_filter) ==
    LET filterLower == toLowerCase(metric_filter) IN
    IF Includes({"amount_collected", "collected", "gross"}, filterLower)
    THEN Column("amount_collected")
    ELSE IF Includes({"royalty_payable", "payable", "net", "royalty_line"}, filterLower)
    THEN Column("royalty_payable")
    ELSE IF Includes({"units"}, filterLower)
    THEN Column("units")
    ELSE IF Includes({"value", "metric_value"}, filterLower)
    THEN Column("value")
    ELSE Column("amount_collected")

\* columnToSortBy of getTopNRows (part_006:175-191)
columnToSortBy(metric_filter) ==
    LET filterLower == toLowerCase(metric_filter) IN
    IF Includes({"royalty_line", "royalty_payable"}, filterLower)
    THEN Column("royalty_payable")
    ELSE IF Includes({"amount_collected"}, filterLower)
    THEN Column("amount_collected")
    ELSE IF Includes({"units"}, filterLower)
    THEN Column("units")
    ELSE Column("amount_collected")

\* dbColumnName of getQuarterlySummary (part_006:320-333)
getQuarterlySummaryColumn(metric_filter) ==
    LET filterLower == toLowerCase(metric_filter) IN
    IF Includes({"amount_collected", "collected", "gross", "earnings"}, filterLower)
    THEN Column("amount_collected")
    ELSE IF Includes({"royalty_payable", "payable", "net", "royalty_line"}, filterLower)
    THEN Column("royalty_payable")
    ELSE IF Includes({"units"}, filterLower)
    THEN Column("units")
    ELSE IF Includes({"value", "metric_value"}, filterLower)
    THEN Column("value")
    ELSE Column("amount_collected")

\* A variant that compares the name as it was written.
mapMetricFilterToColumnAsWritten(metric_filter, defaultColumn) ==
    LET filterLower == IF metric_filter.given /\ metric_filter.word # ""
                       THEN metric_filter
                       ELSE defaultColumn
    IN
    IF Includes({"amount_collected", "collected", "gross", "earnings"}, filterLower)
    THEN Column("amount_collected")
    ELSE IF Includes({"royalty_payable", "payable", "net", "royalty_line"}, filterLower)
    THEN Column("royalty_payable")
    ELSE IF Includes({"units"}, filterLower)
    THEN Column("units")
    ELSE IF Includes({"value", "metric_value"}, filterLower)
    THEN Column("value")
    ELSE defaultColumn

\* mapMetricFilterToColumn (part_006:524-538):
\* filterLower = metric_filter?.toLowerCase() || defaultColumn
mapMetricFilterToColumn(metric_filter, defaultColumn) ==
    LET filterLower == IF metric_filter.given /\ metric_filter.word # ""
                       THEN toLowerCase(metric_filter)
                       ELSE defaultColumn
    IN
    IF Includes({"amount_collected", "collected", "gross", "earnings"}, filterLower)
    THEN Column("amount_collected")
    ELSE IF Includes({"royalty_payable", "payable", "net", "royalty_line"}, filterLower)
    THEN Column("royalty_payable")
    ELSE IF Includes({"units"}, filterLower)
    THEN Column("units")
    ELSE IF Includes({"value", "metric_value"}, filterLower)
    THEN Column("value")
    ELSE defaultColumn

\* z.string().optional().default('amount_collected') (part_006:73, 79, 85)
OrAmountCollected(metric_filter) ==
    IF metric_filter.given THEN metric_filter ELSE Column("amount_collected")

MetricInit ==
    /\ queue = [j \in {"j1"} |-> NewJob]
    /\ blobs \in [{"j1"} -> [ metric_filter : MetricNames \cup {Undefined},
                              defaultColumn : MetricNames ]]
    /\ rowStore = EmptyBag
    /\ hs = [h \in Handlers |-> InitHandler]
    /\ log = [h \in Handlers |-> InitLog]

Issued(by) == \E q \in BagToSet(rowStore) : q.by = by

Issue(by, column) ==
    /\ ~Issued(by)
    /\ rowStore' = rowStore (+) SetToBag({[by |-> by, column |-> column]})
    /\ UNCHANGED <<queue, blobs, hs, log>>

\* z.string() (part_006:46, 52): parse throws on a missing metric_filter and
\* the function returns { success: false } without a query.
calculateMetricSummary ==
    /\ blobs["j1"].metric_filter.given
    /\ Issue("calculateMetricSummary",
             calculateMetricSummaryColumn(blobs["j1"].metric_filter))

getTopNRows ==
    /\ blobs["j1"].metric_filter.given
    /\ Issue("getTopNRows", columnToSortBy(blobs["j1"].metric_filter))

getQuarterlySummary ==
    Issue("getQuarterlySummary",
          getQuarterlySummaryColumn(OrAmountCollected(blobs["j1"].metric_filter)))

\* part_006:370
getYearlySummary ==
    Issue("getYearlySummary",
          mapMetricFilterToColumn(OrAmountCollected(blobs["j1"].metric_filter),
                                  Column("amount_collected")))

\* part_006:426
getMonthlySummary ==
    Issue("getMonthlySummary",
          mapMetricFilterToColumn(OrAmountCollected(blobs["j1"].metric_filter),
                                  Column("amount_collected")))

\* The helper on the requested name and the default of the request.
MapMetricFilter ==
    Issue("mapMetricFilterToColumn",
          mapMetricFilterToColumn(blobs["j1"].metric_filter,
                                  blobs["j1"].defaultColumn))

MetricNext ==
    \/ calculateMetricSummary
    \/ getTopNRows
    \/ getQuarterlySummary
    \/ getYearlySummary
    \/ getMonthlySummary
    \/ MapMetricFilter

MetricSpec == MetricInit /\ [][MetricNext]_vars

----------------------------------------------------------------------------
\* Notions shared by the properties below.

Job == "j1"
Status == queue[Job].status
Passed == { h \in Handlers : log[h].passed }
Running(h) == hs[h].task \in {"parse", "xlsx", "embed", "upsert", "checkpoint"}
Finished(h) == hs[h].pc = "done" /\ ~Running(h)

LinearSteps ==
    { <<"pending", "processing">>, <<"processing", "completed">>,
      <<"processing", "failed">> }

\* The rows of the job's file from first to last, each with its embedding.
StoredRow(i) == MapRow(Job, RawRecord(i), Content(i), Embedding(Content(i)))

----------------------------------------------------------------------------
\* C1: every change of a job's persisted status is pending->processing,
\* processing->completed or processing->failed, whatever the number of
\* webhook triggers, their interleaving and the failures of collaborator
\* calls.
C1_LinearStatus ==
    [][\A j \in DOMAIN queue :
          queue'[j].status # queue[j].status
             => <<queue[j].status, queue'[j].status>> \in LinearSteps]_vars

\* C2: of the invocations for one job that overlap, at most one gets past
\* the pending guard; the file is downloaded by at most one of them and
\* attempts is incremented at most once.
C2_SingleClaim ==
    /\ Cardinality(Passed) <= 1
    /\ Cardinality({ h \in Handlers : log[h].downloads > 0 }) <= 1
    /\ queue[Job].attempts <= 1

\* C3: a call of the worker for a job whose status is already processing,
\* completed or failed answers 200 and does nothing: no increment of
\* attempts, no download, no embedding or upsert call, no write of the queue
\* record.
C3_NoOpWhenNotPending ==
    \A h \in Handlers :
       log[h].calledOn \in {"processing", "completed", "failed"}
          => /\ log[h].incCalls = 0
             /\ log[h].downloads = 0
             /\ log[h].embeds = 0
             /\ log[h].upserts = 0
             /\ log[h].writes = 0
             /\ Returned(h) => hs[h].response = 200

\* C4: once processBatch has thrown on a batch, no processBatch call is
\* started any more (the batch is not retried, later batches are not
\* attempted), the rows of the earlier batches stay in the row store, and the
\* job that the handler leaves behind is failed with its error_message set.
C4_StopAtFailedBatch ==
    \A h \in Handlers :
       log[h].thrown # 0
          => /\ log[h].afterThrow = 0
             /\ \A i \in 1..(log[h].thrown - 1) : BagIn(StoredRow(i), rowStore)
             /\ (Finished(h) /\ log[h].wroteFailed /\ Passed = {h})
                   => /\ Status = "failed"
                      /\ queue[Job].error_message # NoError

\* C5: the row store changes only by one upsert that adds every row of one
\* batch, each with the embedding of its own content, and that upsert is
\* issued only when every embed request of the batch has answered and there
\* are as many vectors as rows; a batch that throws adds nothing.
BatchRows(h) ==
    [i \in 1..Len(hs[h].rowsBatch) |->
        MapRow(hs[h].jobId, RawRecord(hs[h].rowsBatch[i]), Content(hs[h].rowsBatch[i]),
               Embedding(Content(hs[h].rowsBatch[i])))]

C5_BatchAtomic ==
    [][/\ \A h \in Handlers :
             hs'[h].task = "upsert"
                => /\ Len(hs'[h].embResults) = Len(hs'[h].rowsBatch)
                   /\ \A i \in 1..Len(hs'[h].embResults) : IsSome(hs'[h].embResults[i])
       /\ rowStore' # rowStore
             => \E h \in Handlers :
                   /\ hs[h].task = "upsert"
                   /\ log'[h].thrown = log[h].thrown
                   /\ rowStore' = rowStore (+) SeqToBag(BatchRows(h))
                   /\ BagCardinality(rowStore') - BagCardinality(rowStore)
                         = Len(hs[h].rowsBatch)]_vars

\* A second batch threw after the first was stored whole: the store holds the
\* BATCH_SIZE rows of the first batch and nothing of the second.
C5_Witness ==
    \E h \in Handlers :
       /\ Passed = {h}
       /\ Finished(h)
       /\ log[h].upserts >= 1
       /\ log[h].thrown = BATCH_SIZE + 1
       /\ BagCardinality(rowStore) = BATCH_SIZE

\* C6: when processFile has thrown, the handler leaves the job failed with an
\* error_message of at most 500 characters, answers 500, and nothing of the
\* job is processed any further.
ProcessFileErrors ==
    {"download", "emptyblob", "unsupported", "xlsxload", "nosheet", "embedding", "upsert"}

C6_FailedAndStopped ==
    \A h \in Handlers :
       (hs[h].error.kind \in ProcessFileErrors /\ log[h].wroteFailed /\ Passed = {h})
          => /\ Status = "failed"
             /\ queue[Job].error_message # NoError
             /\ queue[Job].error_message.len <= MaxErrLen
             /\ hs[h].response = 500
             /\ ~Running(h)
             /\ log[h].afterThrow = 0

\* C7: attempts never decreases, and every invocation that got past the
\* pending guard and went on has increased attempts by exactly one.
C7_IncrementEveryClaim ==
    \A h \in Handlers :
       (log[h].passed /\ hs[h].pc # "inc") => log[h].incs = 1

\* C7 as amended: attempts never decreases; every invocation that got past the
\* guard and went on has called increment_job_attempts exactly once, an
\* invocation that did not has never called it; attempts is the number of
\* those calls that the database accepted (a call that answers with an error
\* is logged and leaves attempts as it was).
RECURSIVE SumIncs(_)
SumIncs(S) ==
    IF S = {} THEN 0
    ELSE LET h == CHOOSE x \in S : TRUE IN log[h].incs + SumIncs(S \ {h})

JobIncs == SumIncs({ h \in Handlers : hs[h].jobId = Job })

C7_AttemptsBestEffort ==
    [][/\ queue'[Job].attempts >= queue[Job].attempts
       /\ queue'[Job].attempts = JobIncs'
       /\ \A h \in Handlers :
             /\ log'[h].incs <= log'[h].incCalls
             /\ log'[h].incCalls =
                   IF log'[h].passed /\ hs'[h].pc # "inc" THEN 1 ELSE 0]_vars

\* An invocation went through its processing after its increment call had
\* answered with an error, next to one whose call was accepted.
C7_Witness ==
    \E h, g \in Handlers :
       /\ Finished(h) /\ log[h].passed /\ log[h].incCalls = 1 /\ log[h].incs = 0
       /\ hs[h].response = 200
       /\ Finished(g) /\ log[g].incs = 1
       /\ queue[Job].attempts = 1

\* C8: when a handler that had claimed the job answers, nothing of it is
\* still running, and it writes the job's record no more.
C8_SettledOnReturn ==
    \A h \in Handlers :
       /\ log[h].lateWrites = 0
       /\ (Returned(h) /\ log[h].passed) => ~Running(h)

\* C9: within one run a processBatch call starts only when the one before
\* it has settled, the parser hands no row to the step callback while a call
\* is in flight, and the batches are handed over in the order of the source:
\* each starts BATCH_SIZE rows after the one before it, or is the batch that
\* has just thrown.
InSourceOrder(h) ==
    \A k \in 1..(Len(log[h].batches) - 1) :
       \/ log[h].batches[k + 1] = log[h].batches[k] + BATCH_SIZE
       \/ /\ log[h].batches[k + 1] = log[h].batches[k]
          /\ log[h].thrown = log[h].batches[k]
          /\ k + 1 = Len(log[h].batches)

C10_ProcessedMonotone ==
    [][Cardinality(Passed') <= 1
          => queue'[Job].processed_row_count >= queue[Job].processed_row_count]_vars

----------------------------------------------------------------------------
\* C11: within one run, after the reset to 0 at the claim, total_row_count
\* is never written with a value smaller than the one the record holds: for
\* the CSV estimate, for the XLSX value rowCount - 1 (a worksheet with zero
\* rows included), for the PDF path and for the final write.
C11_TotalMonotone ==
    [][Cardinality(Passed') <= 1
          => queue'[Job].total_row_count >= queue[Job].total_row_count]_vars

\* C12: when a job is completed, its processed_row_count is the number of
\* source rows that were part of a processBatch call that succeeded.
FlushedRows == Cardinality(BagToSet(rowStore))

C12_ProcessedAtCompletion ==
    \A h \in Handlers :
       (Passed = {h} /\ Status = "completed")
          => queue[Job].processed_row_count = FlushedRows

\* C13: a checkpoint write that the database refuses changes nothing of the
\* job's record (it is not marked failed), puts no error into the handler and
\* does not send it to its catch block; the caller goes on as after a write
\* that succeeded: the parser is resumed, the sheet walk goes to its next row,
\* or the parse ends normally.
CheckpointRefused(h) ==
    /\ hs[h].task = "checkpoint"
    /\ hs'[h].task # "checkpoint"
    /\ queue' = queue
    /\ queue[hs[h].jobId].processed_row_count # hs[h].currentProcessed

C13_CheckpointFailureNotFatal ==
    [][\A h \in Handlers :
          CheckpointRefused(h)
             => /\ hs'[h].error = hs[h].error
                /\ hs'[h].pc = "catch" => hs[h].pc = "catch"
                /\ ~log'[h].wroteFailed \/ log[h].wroteFailed
                /\ hs'[h].processedRowCount = hs[h].currentProcessed
                /\ hs[h].ret = "step"
                      => /\ hs'[h].task = "parse"
                         /\ ~hs'[h].paused
                         /\ hs'[h].rowsBatch = <<>>
                /\ hs[h].ret = "xlsx"
                      => /\ hs'[h].rowsBatch = <<>>
                         /\ hs'[h].task = IF hs[h].nextRow + 1 > hs[h].file.est
                                          THEN "ended" ELSE "xlsx"
                /\ (hs[h].ret = "complete" /\ hs[h].promise = "pending")
                      => /\ hs'[h].promise = "resolved"
                         /\ hs'[h].pc = "csv_total2"]_vars

\* Every checkpoint write of a run of MaxRows rows was refused (the record
\* still counts 0 rows and the final read saw that), and yet both batches are
\* stored and the job is completed.
C13_Witness ==
    \E h \in Handlers :
       /\ Passed = {h}
       /\ Status = "completed"
       /\ hs[h].pc = "done"
       /\ hs[h].file.rows = MaxRows
       /\ Len(log[h].batches) = 2
       /\ log[h].thrown = 0
       /\ FlushedRows = MaxRows
       /\ IsSome(hs[h].finalJobData)
       /\ Val(hs[h].finalJobData).processed_row_count = 0

----------------------------------------------------------------------------
\* Notions for the rows of one record (RowSpec).
Upserted == BagToSet(rowStore)

\* rowData['Income Period'] of the record, and its digits.
RawPeriod == Cell(blobs[Job], "Income Period")
RawText == IF RawPeriod = None THEN <<>> ELSE Val(RawPeriod)
RawDigits == SelectSeq(RawText, LAMBDA c : c \in Digits)

AllDigits(s) == \A i \in 1..Len(s) : s[i] \in Digits
Century(s) == <<s[1], s[2]>> \in {<<"1", "9">>, <<"2", "0">>}

IsYYYYMM(s) ==
    /\ Len(s) = 6
    /\ AllDigits(s)
    /\ Century(s)
    /\ Num2(s[5], s[6]) >= 1
    /\ Num2(s[5], s[6]) <= 12

IsYYYYMMDD(s) ==
    /\ Len(s) = 8
    /\ IsYYYYMM(SubSeq(s, 1, 6))
    /\ AllDigits(s)
    /\ Num2(s[7], s[8]) >= 1
    /\ Num2(s[7], s[8]) <= 31

First6(s) == SubSeq(s, 1, 6)

\* C14: passing the same batch for the same file_id through processBatch
\* twice leaves the rows that passing it once leaves: no row is stored twice.
C14_UpsertIdempotent ==
    \A r \in Upserted : CopiesIn(r, rowStore) = 1

\* C15: the period of every upserted row is null or six digits YYYYMM with
\* a year that starts with 19 or 20 and a month from 01 to 12, whatever the
\* raw 'Income Period' is.
C15_PeriodFormat ==
    \A r \in Upserted : r.period = None \/ IsYYYYMM(Val(r.period))

\* A date of eight digits was cut to its year and month.
C15_Witness ==
    \E r \in Upserted :
       /\ Len(RawText) = 8
       /\ IsYYYYMMDD(RawText)
       /\ r.period = Some(First6(RawText))

\* C16: a raw period that is a valid YYYYMM or a valid YYYYMMDD gives the
\* YYYYMM of the same year and month; every other string gives null.
C16_ValidOrNull ==
    \A r \in Upserted :
       r.period = IF IsYYYYMM(RawText) \/ IsYYYYMMDD(RawText)
                  THEN Some(First6(RawText))
                  ELSE None

\* C16 as amended: the raw period is judged by the digits left when every
\* other character is removed.  If they are a valid YYYYMM or a valid
\* YYYYMMDD the period is the YYYYMM of the same year and month; if they are
\* anything else of fewer than RangeMinDigits digits, or the cell is absent or
\* empty, the period is null.
C16_DigitsValidOrNull ==
    \A r \in Upserted :
       /\ (IsYYYYMM(RawDigits) \/ IsYYYYMMDD(RawDigits))
             => r.period = Some(First6(RawDigits))
       /\ (~IsYYYYMM(RawDigits) /\ ~IsYYYYMMDD(RawDigits)
              /\ Len(RawDigits) < RangeMinDigits)
             => r.period = None

\* A text with characters that are not digits around a valid date gave the
\* date's year and month.
C16_Witness ==
    \E r \in Upserted :
       /\ ~AllDigits(RawText)
       /\ IsYYYYMMDD(RawDigits)
       /\ r.period = Some(First6(RawDigits))

\* C17: with RangeMinDigits or more digits the period is the first six
\* digits when they are a valid YYYYMM and null otherwise; with a number of
\* digits other than 6, 8 or RangeMinDigits and more it is null.
C17_RangeStart ==
    \A r \in Upserted :
       /\ Len(RawDigits) >= RangeMinDigits
             => r.period = IF IsYYYYMM(First6(RawDigits))
                           THEN Some(First6(RawDigits))
                           ELSE None
       /\ (Len(RawDigits) \notin {6, 8} /\ Len(RawDigits) < RangeMinDigits)
             => r.period = None

\* '202401-202403' gave '202401'.
C17_Witness ==
    \E r \in Upserted :
       /\ RawText = <<"2", "0", "2", "4", "0", "1", "-", "2", "0", "2", "4", "0", "3">>
       /\ r.period = Some(<<"2", "0", "2", "4", "0", "1">>)

----------------------------------------------------------------------------
\* C18: a record whose 'Income Period' is not recognised, or whose amount
\* cannot be parsed, is mapped like any other: processBatch builds one row
\* for every record of the batch and requests one vector for each, that
\* row's period (or amount) is null, its other fields are the trimmed cells,
\* and the rows of the other records are what they are without it.
DigitCount(s) == Len(SelectSeq(s, LAMBDA c : c \in Digits))

Unrecognised(text) ==
    DigitCount(text) \notin {6, 8} /\ DigitCount(text) < RangeMinDigits

C18_SoftDataErrors ==
    /\ \A h \in Handlers :
          hs[h].task \in {"embed", "upsert"}
             => Len(hs[h].embResults) = Len(hs[h].rowsBatch)
    /\ \A h \in Handlers :
          hs[h].task = "upsert"
             => /\ Len(hs[h].rowsToUpsert) = Len(hs[h].rowsBatch)
                /\ \A i \in 1..Len(hs[h].rowsToUpsert) :
                      LET r == hs[h].rowsToUpsert[i]
                          d == RawRecord(hs[h].rowsBatch[i])
                      IN /\ r.file_id = hs[h].jobId
                         /\ r.content = Content(hs[h].rowsBatch[i])
                         /\ r.embedding = Embedding(r.content)
                         /\ r.catalog = Some(d["Client Code"])
                         /\ r.metric = Some(d["Income Type Name"])
                         /\ r.income_type = Some(d["Income Type Name"])
                         /\ Unrecognised(d["Income Period"]) => r.period = None
                         /\ ~Unrecognised(d["Income Period"]) => r.period # None
                         /\ DigitCount(d["Amount Collected"]) = 0
                               => r.value = None /\ r.amount_collected = None
                         /\ DigitCount(d["Amount Collected"]) > 0
                               => r.value # None /\ r.amount_collected = r.value
    /\ \A r \in BagToSet(rowStore) :
          \E i \in 1..(MaxRows + 1) : r.content = Content(i) /\ r = StoredRow(i)

\* The record 'abc123' / 'n/a' is stored with a null period and a null
\* amount next to the record '202312' / '$1,234.56' of the same batch.
C18_Witness ==
    \E r1, r2 \in BagToSet(rowStore) :
       /\ r1.content = Content(1)
       /\ r1.period = Some(<<"2", "0", "2", "3", "1", "2">>)
       /\ r1.value = Some([neg |-> FALSE, int |-> 1234, frac |-> <<"5", "6">>])
       /\ r2.content = Content(2)
       /\ RawRecord(2)["Income Period"] = <<"a", "b", "c", "1", "2", "3">>
       /\ r2.period = None
       /\ r2.value = None
       /\ r2.catalog = Some(Str100047)
       /\ r2.income_type = Some(StrStreaming)

\* C19: the embed requests of a batch are all issued when processBatch
\* starts, one for each row, before any of them has answered; in whatever
\* order they answer, row i of the upsert carries the vector of the content
\* of row i, which is the content stored in the row.
C19_EmbeddingsJoinedByIndex ==
    [][\A h \in Handlers :
          /\ Len(log'[h].batches) > Len(log[h].batches)
                => /\ hs'[h].task = "embed"
                   /\ log'[h].embeds = log[h].embeds + Len(hs'[h].rowsBatch)
                   /\ Len(hs'[h].embResults) = Len(hs'[h].rowsBatch)
                   /\ \A i \in 1..Len(hs'[h].embResults) : hs'[h].embResults[i] = None
          /\ Len(log'[h].batches) = Len(log[h].batches)
                => log'[h].embeds = log[h].embeds
          /\ hs'[h].task = "upsert"
                => /\ Len(hs'[h].rowsToUpsert) = Len(hs'[h].rowsBatch)
                   /\ \A i \in 1..Len(hs'[h].rowsToUpsert) :
                         /\ hs'[h].rowsToUpsert[i].content = Content(hs'[h].rowsBatch[i])
                         /\ hs'[h].rowsToUpsert[i].embedding =
                               Embedding(hs'[h].rowsToUpsert[i].content)]_vars

\* The request of the second row of a batch has answered while that of the
\* first is still out.
C19_Witness ==
    \E h \in Handlers :
       /\ hs[h].task = "embed"
       /\ Len(hs[h].embResults) = BATCH_SIZE
       /\ hs[h].embResults[1] = None
       /\ hs[h].embResults[2] = Some(Embedding(Content(hs[h].rowsBatch[2])))

\* C20: a step of a handler for job J changes at most the record of J and
\* the handler's own local state; the records of the other jobs, the batch
\* buffer and the counters of every other handler stay as they are; no job
\* record appears or disappears; and no row leaves the row store: a step adds
\* rows of J's file or leaves the store alone.
Moved(h) == hs'[h] # hs[h]

C20_Frame ==
    [][/\ DOMAIN queue' = DOMAIN queue
       /\ \A j \in DOMAIN queue :
             queue'[j] # queue[j] => \E h \in Handlers : Moved(h) /\ hs[h].jobId = j
       /\ \A h, g \in Handlers : (h # g /\ Moved(h)) => ~Moved(g)
       /\ \A r \in BagToSet(rowStore) : CopiesIn(r, rowStore') >= CopiesIn(r, rowStore)
       /\ \A r \in BagToSet(rowStore') :
             CopiesIn(r, rowStore') > CopiesIn(r, rowStore)
                => \E h \in Handlers : Moved(h) /\ hs[h].jobId = r.file_id]_vars

\* Two handlers, one for each job, ran side by side: one job is completed
\* with its row stored while the other is still being processed with a count
\* of its own.
C20_Witness ==
    \E h, g \in Handlers :
       /\ hs[h].jobId = "j1" /\ hs[g].jobId = "j2"
       /\ log[h].passed /\ log[g].passed
       /\ queue["j1"].status = "completed"
       /\ queue["j1"].processed_row_count = 1
       /\ queue["j2"].status = "processing"
       /\ queue["j2"].processed_row_count = 0
       /\ hs[g].task = "embed"
       /\ hs[g].rowsBatch = <<1>>
       /\ \E r \in BagToSet(rowStore) : r.file_id = "j1"

----------------------------------------------------------------------------
\* C21: a webhook for a job id that has no processing_queue record is
\* answered with an error (500) and leaves everything as it was: no record
\* is created or changed, increment_job_attempts is not called, nothing is
\* downloaded, no vector is requested and no row is upserted.
C21_MissingJobNoState ==
    [][/\ DOMAIN queue' = DOMAIN queue
       /\ \A h \in Handlers :
             log'[h].calledOn = "absent"
                => /\ Moved(h) => (queue' = queue /\ rowStore' = rowStore)
                   /\ ~log'[h].passed
                   /\ log'[h].incCalls = 0
                   /\ log'[h].downloads = 0
                   /\ log'[h].embeds = 0
                   /\ log'[h].upserts = 0
                   /\ Returned(h)' => hs'[h].response = 500]_vars

\* The handler of a missing job has answered 500 after its catch block
\* issued its update, which matched no row.
C21_Witness ==
    \E h \in Handlers :
       /\ log[h].calledOn = "absent"
       /\ hs[h].jobId = "j2"
       /\ hs[h].response = 500
       /\ log[h].writes = 1
       /\ DOMAIN queue = {Job}
       /\ queue[Job] = NewJob

----------------------------------------------------------------------------
\* The text fields of a row, which processBatch fills through valueOrNull.
TextFields(r) ==
    { r.catalog, r.client_name, r.metric, r.song_title, r.artist,
      r.composers, r.source_name, r.income_type, r.isrc }

Padded(s) == s # <<>> /\ (Head(s) = " " \/ s[Len(s)] = " ")

\* C22: valueOrNull trims its input and returns null when nothing is left:
\* every text field of an upserted row is null or a non-empty string with no
\* blank at either end.
C22_TrimmedOrNull ==
    \A r \in Upserted :
       \A v \in TextFields(r) : v = None \/ (Val(v) # <<>> /\ ~Padded(Val(v)))

----------------------------------------------------------------------------
\* The request, the column that a function asked for, and the synonym sets.
Requested == blobs[Job].metric_filter
Default == blobs[Job].defaultColumn

ColumnOf(by) == { q.column : q \in { p \in Upserted : p.by = by } }

CanonicalOf(word) ==
    CASE word \in {"amount_collected", "collected", "gross", "earnings"}
            -> Column("amount_collected")
      [] word \in {"royalty_payable", "payable", "net", "royalty_line"}
            -> Column("royalty_payable")
      [] word = "units" -> Column("units")
      [] word \in {"value", "metric_value"} -> Column("value")

Synonyms ==
    { "amount_collected", "collected", "gross", "earnings", "royalty_payable",
      "payable", "net", "royalty_line", "units", "value", "metric_value" }

IsSynonym(name) == name.given /\ name.word \in Synonyms

----------------------------------------------------------------------------
\* The cells of the record that processBatch was given.
RawCell(col) == Cell(blobs[Job], col)

\* The text of a cell as the row keeps it: null for a cell that is absent
\* or the empty string, the text without the blanks at its ends otherwise.
Kept(cell) ==
    IF cell = None \/ Val(cell) = <<>> THEN None ELSE Some(Trim(Val(cell)))

\* A text with every '$' and ',' removed.
RECURSIVE WithoutCurrency(_)
WithoutCurrency(s) ==
    IF s = <<>> THEN <<>>
    ELSE IF Head(s) \in {"$", ","} THEN WithoutCurrency(Tail(s))
    ELSE <<Head(s)>> \o WithoutCurrency(Tail(s))

\* The period that the digits of the raw period give.
NormalizedPeriod ==
    IF \/ IsYYYYMM(RawDigits)
       \/ IsYYYYMMDD(RawDigits)
       \/ (Len(RawDigits) >= RangeMinDigits /\ IsYYYYMM(First6(RawDigits)))
    THEN Some(First6(RawDigits))
    ELSE None

\* C24: the canonical row carries the job's file_id, takes catalog from
\* 'Client Code', period from the normalized 'Income Period', income_type
\* from 'Income Type Name', and amount_collected from 'Amount Collected'
\* parsed as a number after every '$' and ',' was removed.
C24_CanonicalMapping ==
    \A r \in Upserted :
       /\ r.file_id = Job
       /\ r.catalog = Kept(RawCell("Client Code"))
       /\ r.period = NormalizedPeriod
       /\ r.income_type = Kept(RawCell("Income Type Name"))
       /\ r.amount_collected =
             IF RawCell("Amount Collected") = None
                   \/ Val(RawCell("Amount Collected")) = <<>>
             THEN None
             ELSE parseFloat(WithoutCurrency(Val(RawCell("Amount Collected"))))

\* 100047,202312,Streaming,"$1,234.56" gave 1234.56 and the other fields.
C24_Witness ==
    \E r \in Upserted :
       /\ RawCell("Amount Collected")
             = Some(<<"$", "1", ",", "2", "3", "4", ".", "5", "6">>)
       /\ RawCell("Client Code") = Some(Str100047)
       /\ RawCell("Income Type Name") = Some(StrStreaming \o <<" ">>)
       /\ r.file_id = Job
       /\ r.catalog = Some(Str100047)
       /\ r.period = Some(<<"2", "0", "2", "3", "1", "2">>)
       /\ r.income_type = Some(StrStreaming)
       /\ r.amount_collected
             = Some([neg |-> FALSE, int |-> 1234, frac |-> <<"5", "6">>])

----------------------------------------------------------------------------
\* The parser of handler h has reached the end of the input without an error.
ParsedAll(h) ==
    /\ log[h].passed
    /\ hs[h].file.ext \in {"csv", "xlsx"}
    /\ hs[h].pc \in {"csv_total2", "final_read", "final_write", "done"}
    /\ hs[h].error = NoError

\* C25: every data row goes into exactly one batch handed to processBatch:
\* the k-th batch starts at row 1 + (k - 1) * BATCH_SIZE, holds between 1
\* and BATCH_SIZE rows, the buffer never holds more than BATCH_SIZE rows,
\* and when the parser has reached the end of the input without an error the
\* batches together hold every data row once.
C25_EachRowInOneBatch ==
    \A h \in Handlers :
       /\ Len(hs[h].rowsBatch) <= BATCH_SIZE
       /\ hs[h].task \in {"embed", "upsert", "checkpoint"}
             => Len(hs[h].rowsBatch) >= 1
       /\ \A k \in 1..Len(log[h].batches) :
             log[h].batches[k] = 1 + (k - 1) * BATCH_SIZE
       /\ ParsedAll(h)
             => /\ log[h].embeds = hs[h].file.rows
                /\ Len(log[h].batches) =
                      (hs[h].file.rows + BATCH_SIZE - 1) \div BATCH_SIZE

\* C26: an XLSX job that is completed has total_row_count equal to
\* worksheet.rowCount - 1, and processed_row_count equal to it.
C26_XlsxTotalExact ==
    \A h \in Handlers :
       (Passed = {h} /\ hs[h].file.ext = "xlsx" /\ Status = "completed")
          => /\ queue[Job].total_row_count = hs[h].file.est - 1
             /\ queue[Job].processed_row_count = queue[Job].total_row_count

\* C27: a job's record changes only by a step of an invocation for that job
\* that has passed the pending guard.
C27_WritesOnlyAfterGuard ==
    [][\A j \in DOMAIN queue :
          queue'[j] # queue[j]
             => \E h \in Handlers : Moved(h) /\ hs[h].jobId = j /\ log[h].passed]_vars

----------------------------------------------------------------------------
\* The sheet that was walked, the column that gives a name its value, and
\* the text of a realized cell value.
Sheet == blobs[Job]

GivesName(n, name) ==
    /\ parseXlsxHeader(Sheet, n) = name
    /\ \A k \in DOMAIN Sheet.row : parseXlsxHeader(Sheet, k) = name => k <= n

HasText(c) == c.kind \in {"text", "richText"} \/ (c.kind = "formula" /\ c.result # None)

RealizedText(c) ==
    IF c.kind = "formula" THEN Val(c.result)
    ELSE IF c.kind = "richText" THEN Concat(c.runs)
    ELSE c.text

\* C28: the worker's XLSX parser reads the cells of a data row under the
\* header names of row 1, a column without a header under a synthesized
\* positional name, and hands realized values to the Row Normalizer: the
\* row's catalog and amount_collected are those of the result of a formula
\* cell and of the joined runs of a rich-text cell.
C28_CellsRealized ==
    /\ \A n \in DOMAIN Sheet.row :
          (Sheet.headers[n] = None /\ Sheet.row[n].kind # "null")
             => "column_" \o ToString(n) \in DOMAIN parseXlsxRowData(Sheet)
    /\ \A r \in Upserted :
          r.file_id = Job
             => \A n \in DOMAIN Sheet.row :
                   LET c == Sheet.row[n] IN
                   /\ (GivesName(n, "Client Code") /\ HasText(c))
                         => r.catalog = Kept(Some(RealizedText(c)))
                   /\ (GivesName(n, "Amount Collected") /\ HasText(c))
                         => r.amount_collected = parseFloat(WithoutCurrency(RealizedText(c)))

----------------------------------------------------------------------------
\* Handler h alone has passed the guard and written the record.
SoleWriter(h) ==
    /\ Passed = {h}
    /\ \A g \in Handlers \ {h} : log[g].writes = 0

----------------------------------------------------------------------------
\* The functions that map a metric name to a column.
MetricFunctions ==
    { "calculateMetricSummary", "getTopNRows", "getQuarterlySummary",
      "getYearlySummary", "getMonthlySummary" }

\* C30: every function that maps a metric name to a column maps the same
\* name, in any letter case, to the same column.

C30_SameColumnEverywhere ==
    \A f, g \in MetricFunctions :
       \A c \in ColumnOf(f) : \A d \in ColumnOf(g) : c = d

====
